---- MODULE Spec2Model ----
(***************************************************************************)
(* Model of the MinerU web console's real-time task synchronisation:       *)
(*   - the task store            (webui/src/stores/taskStore.ts)           *)
(*   - the ui store              (webui/src/stores/uiStore.ts)             *)
(*   - the push connection       (webui/src/services/websocket.ts)         *)
(*   - the application shell     (App.vue, src/unnamed/part_001): the      *)
(*     pull helpers, the selection handlers and handleSocketEvent.         *)
(* The browser's WebSocket objects, its timers, the HTTP transport and the *)
(* backend are the environment.                                            *)
(***************************************************************************)
EXTENDS Integers, Sequences, FiniteSets, Bags, TLC

\* ------------------------------------------------------------- bounds
\* Largest updated_at the backend hands out (timestamps are 0..MaxTime).
MaxTime == 2
\* Most log lines the backend writes for one task.
MaxLogs == 1
\* Most WebSocket objects alive (connecting, open or closing) at once.
MaxSockets == 2
\* Most HTTP requests in flight at once.
MaxPulls == 2
\* Most reconnect timers pending at once.
MaxTimers == 1
\* Most pushes of one task not yet received by every open socket of the task.
MaxEvents == 1
\* Most clicks of the user (refresh, select, retry, submit, login/logout, dismiss).
MaxClicks == 3
\* Most pushes of one task pending once the backend has sent two back to back.
MaxBurst == 2
\* Most auto-dismiss timers of the error banner pending at once.
MaxDismissals == 2

\* --------------------------------------------------- program constants
maxReconnectAttempts == 5
BaseDelay == 1000
MaxDelay == 10000

Tasks == {"t1", "t2"}
NULL == "null"
\* The order in which the backend lists its tasks (newest first).
TaskOrder == <<"t2", "t1">>
Terminal == {"success", "failed"}
Statuses == {"queued", "running", "success", "failed"}

VARIABLES
  \* taskStore state
  tasks, currentTaskId, details, isLoading, socketTaskId,
  \* uiStore state
  errorMessage, isUploading,
  \* TaskWebSocket fields
  socket, handlers, reconnectAttempts, wsCurrentTaskId,
  \* environment: the WebSocket objects the instance created, pending
  \* reconnect timers, HTTP requests in flight, the backend and its pushes
  sockets, timers, pulls, backend, events,
  \* the pending auto-dismiss timers of the error banner, oldest first: the
  \* message each one was started for
  dismissals,
  \* a TaskWebSocket whose client registers several handlers: the handlers in
  \* insertion order, and the delivery of the last message
  observers,
  \* the step taken last (observation only)
  last,
  \* reconnect history since the last successful open (observation only)
  backoff,
  \* how many detail pulls the handling of each push event has issued (observation only)
  reconciled,
  \* the number of clicks so far (bounds the run)
  clicks

storeVars == <<tasks, currentTaskId, details, isLoading, socketTaskId>>
uiVars == <<errorMessage, isUploading>>
wsVars == <<socket, handlers, reconnectAttempts, wsCurrentTaskId>>
envVars == <<sockets, timers, pulls, backend, events, dismissals>>
obsVars == <<last, backoff, reconciled, clicks>>
vars == <<storeVars, uiVars, wsVars, envVars, obsVars, observers>>

\* ------------------------------------------------------------ records
NoDetail == [task_id |-> NULL, status |-> "-", updated_at |-> 0, logs |-> <<>>]
SummaryOf(d) == [task_id |-> d.task_id, status |-> d.status, updated_at |-> d.updated_at]

NoEvent == [event |-> "-", task_id |-> NULL, status |-> "-", timestamp |-> 0,
            line |-> 0, message |-> NULL, task |-> NoDetail]
SnapshotEvent(d) == [NoEvent EXCEPT !.event = "snapshot", !.task_id = d.task_id, !.task = d]
StatusEvent(t, st, ts) ==
  [NoEvent EXCEPT !.event = "status", !.task_id = t, !.status = st, !.timestamp = ts]
LogEvent(t, l) == [NoEvent EXCEPT !.event = "log", !.task_id = t, !.line = l]
ErrorEvent(t, m, ts) ==
  [NoEvent EXCEPT !.event = "error", !.task_id = t, !.message = m, !.timestamp = ts]

\* a frame whose text JSON.parse rejects
MalformedMessage(t) == [NoEvent EXCEPT !.event = "malformed", !.task_id = t]
\* a well-formed message of a kind the client does not know
UnknownEvent(t) == [NoEvent EXCEPT !.event = "progress", !.task_id = t]

Pull(kind, taskId, cont, list, detail) ==
  [kind |-> kind, task |-> taskId, cont |-> cont, list |-> list, detail |-> detail]

Step(op, taskId, ev) == [op |-> op, task |-> taskId, ev |-> ev]

\* ------------------------------------------------------- taskStore.ts
\* Array.prototype.findIndex, 1-based; 0 when no element has the id.
FindIndex(list, id) ==
  IF \E i \in 1..Len(list) : list[i].task_id = id
  THEN CHOOSE i \in 1..Len(list) :
         /\ list[i].task_id = id
         /\ \A j \in 1..(i - 1) : list[j].task_id # id
  ELSE 0

setTasks(list) == list

\* an upsert that inserts at the front without looking for the task
upsertTaskAlwaysInserts(list, summary) == <<summary>> \o list

upsertTask(list, summary) ==
  LET index == FindIndex(list, summary.task_id) IN
  IF index > 0
  THEN [list EXCEPT ![index] = summary]
  ELSE <<summary>> \o list

\* setTaskDetail stores the detail object itself in the list too; the list
\* is read through the summary fields only, which is what is kept of it.
\* a setTaskDetail that stores the detail and leaves the list alone
setTaskDetailOnly(st, task) ==
  [st EXCEPT !.details = [st.details EXCEPT ![task.task_id] = task]]

setTaskDetail(st, task) ==
  [st EXCEPT !.details = [st.details EXCEPT ![task.task_id] = task],
             !.tasks = upsertTask(st.tasks, SummaryOf(task))]

\* an append that does not check that the detail exists
appendLogUnguarded(dets, taskId, line) ==
  [dets EXCEPT ![taskId].logs = Append(@, line)]

\* an append that keeps only the newest line
appendLogKeepsLast(dets, taskId, line) ==
  IF taskId \in DOMAIN dets /\ dets[taskId] # NoDetail
  THEN [dets EXCEPT ![taskId].logs = <<line>>]
  ELSE dets

appendLog(dets, taskId, line) ==
  IF taskId \in DOMAIN dets /\ dets[taskId] # NoDetail
  THEN [dets EXCEPT ![taskId].logs = Append(@, line)]
  ELSE dets

\* -------------------------------------------------------- environment
\* The summaries fetchTasks() answers with: the tasks the backend holds.
RECURSIVE ListOf(_, _)
ListOf(b, i) ==
  IF i > Len(TaskOrder) THEN <<>>
  ELSE (IF b[TaskOrder[i]].status = "none" THEN <<>> ELSE <<SummaryOf(b[TaskOrder[i]])>>)
       \o ListOf(b, i + 1)

NoSocket == [task |-> NULL, rs |-> "CLOSED", pos |-> 0]
SocketIds == 1..MaxSockets
Live(s) == sockets[s].rs # "CLOSED"

\* Pushes every open socket of a task has already received are dropped from
\* the task's stream (no socket reads them again); cursors move accordingly.
Readers(socks, t) == {s \in SocketIds : socks[s].rs = "OPEN" /\ socks[s].task = t}
Consumed(socks, evs, t) ==
  IF Readers(socks, t) = {} THEN Len(evs[t])
  ELSE CHOOSE n \in 0..Len(evs[t]) :
         /\ \A s \in Readers(socks, t) : n <= socks[s].pos
         /\ \E s \in Readers(socks, t) : n = socks[s].pos
TrimEvents(socks, evs) ==
  [t \in Tasks |-> SubSeq(evs[t], Consumed(socks, evs, t) + 1, Len(evs[t]))]
TrimSockets(socks, evs) ==
  [s \in SocketIds |->
     IF socks[s].rs = "OPEN"
     THEN [socks[s] EXCEPT !.pos = @ - Consumed(socks, evs, socks[s].task)]
     ELSE socks[s]]
\* this.socket: a socket id, null, or a reference to a WebSocket that has closed
NullSocket == 0
DeadSocket == 0 - 1

\* ------------------------------------------------- state of the client
\* The fields the handlers of App.vue read and write, as one record.
Client ==
  [tasks |-> tasks, currentTaskId |-> currentTaskId, details |-> details,
   isLoading |-> isLoading, socketTaskId |-> socketTaskId,
   errorMessage |-> errorMessage, isUploading |-> isUploading,
   socket |-> socket, handlers |-> handlers,
   reconnectAttempts |-> reconnectAttempts, wsCurrentTaskId |-> wsCurrentTaskId,
   sockets |-> sockets, timers |-> timers, pulls |-> pulls,
   backend |-> backend, events |-> events, backoff |-> backoff,
   dismissals |-> dismissals]

\* a watcher that starts a timer only when no message was shown before
watchErrorMessageFirstOnly(old, value, pending) ==
  IF old = NULL /\ value # NULL THEN Append(pending, value) ELSE pending

\* watch(() => uiStore.errorMessage): when a handler has left a new message
\* that is not empty, a timer is started for it
watchErrorMessage(old, value, pending) ==
  IF value # old /\ value # NULL THEN Append(pending, value) ELSE pending

Becomes(st) ==
  /\ tasks' = st.tasks
  /\ currentTaskId' = st.currentTaskId
  /\ details' = st.details
  /\ isLoading' = st.isLoading
  /\ socketTaskId' = st.socketTaskId
  /\ errorMessage' = st.errorMessage
  /\ isUploading' = st.isUploading
  /\ socket' = st.socket
  /\ handlers' = st.handlers
  /\ reconnectAttempts' = st.reconnectAttempts
  /\ wsCurrentTaskId' = st.wsCurrentTaskId
  /\ sockets' = TrimSockets(st.sockets, st.events)
  /\ events' = TrimEvents(st.sockets, st.events)
  /\ timers' = st.timers
  /\ pulls' = st.pulls
  /\ backend' = st.backend
  /\ backoff' = st.backoff
  /\ dismissals' = watchErrorMessage(errorMessage, st.errorMessage, st.dismissals)
  /\ Len(dismissals') <= MaxDismissals
  /\ observers' = observers

Fits(st) == BagCardinality(st.pulls) <= MaxPulls

\* -------------------------------------------------------- websocket.ts
\* Observation of the reconnects: valid: a socket has opened since the last
\* close(); closes and delays: the onclose callbacks run and the delays of the
\* timers scheduled since that open; stale: how many of the pending timers
\* (the first ones of timers) were scheduled before the last close().
NoBackoff == [valid |-> FALSE, closes |-> 0, delays |-> <<>>, stale |-> 0]

FreeIds(st) == {s \in SocketIds : st.sockets[s].rs = "CLOSED"}

\* TaskWebSocket.connect: a new WebSocket replaces this.socket.
wsConnect(st, taskId) ==
  LET id == CHOOSE s \in FreeIds(st) : \A o \in FreeIds(st) : s <= o IN
  [st EXCEPT !.wsCurrentTaskId = taskId,
             !.sockets = [st.sockets EXCEPT ![id] = [task |-> taskId, rs |-> "CONNECTING", pos |-> 0]],
             !.socket = id]

\* WebSocket.close(): a connecting or open socket starts closing.
Closing(sock) == IF sock.rs \in {"CONNECTING", "OPEN"} THEN [sock EXCEPT !.rs = "CLOSING"] ELSE sock

\* a close() that keeps the registered handlers
wsCloseKeepsHandlers(st) ==
  [st EXCEPT !.reconnectAttempts = maxReconnectAttempts,
             !.sockets = IF st.socket \in SocketIds
                         THEN [st.sockets EXCEPT ![st.socket] = Closing(@)]
                         ELSE st.sockets,
             !.socket = NullSocket,
             !.backoff = [NoBackoff EXCEPT !.stale = Len(st.timers)]]

\* TaskWebSocket.close
wsClose(st) ==
  [st EXCEPT !.reconnectAttempts = maxReconnectAttempts,
             !.sockets = IF st.socket \in SocketIds
                         THEN [st.sockets EXCEPT ![st.socket] = Closing(@)]
                         ELSE st.sockets,
             !.socket = NullSocket,
             !.handlers = {},
             !.backoff = [NoBackoff EXCEPT !.stale = Len(st.timers)]]

wsOn(st, handler) == [st EXCEPT !.handlers = @ \cup {handler}]

RECURSIVE Pow2(_)
Pow2(n) == IF n = 0 THEN 1 ELSE 2 * Pow2(n - 1)
Min(a, b) == IF a < b THEN a ELSE b

\* a delay that doubles without the cap
ReconnectDelayUncapped(attempts) == BaseDelay * Pow2(attempts)

ReconnectDelay(attempts) == Min(BaseDelay * Pow2(attempts), MaxDelay)

\* socket.onclose: whether a reconnect is scheduled
ShouldReconnect(attempts, taskId) == attempts < maxReconnectAttempts /\ taskId # NULL

\* handlers.forEach(handler => handler(data)) when some handlers throw: the
\* handlers called, in order. An exception leaves forEach, so the handler
\* that throws is the last one called.
RECURSIVE ForEach(_, _, _)
ForEach(registered, throwing, i) ==
  IF i > Len(registered) THEN <<>>
  ELSE IF registered[i] \in throwing THEN <<registered[i]>>
  ELSE <<registered[i]>> \o ForEach(registered, throwing, i + 1)

\* Set.prototype.add and delete; a Set iterates in insertion order
SetAdd(registered, handler) ==
  IF \E i \in 1..Len(registered) : registered[i] = handler
  THEN registered
  ELSE Append(registered, handler)
SetDelete(registered, handler) ==
  SelectSeq(registered, LAMBDA h : h # handler)

Observers == {"h1", "h2", "h3"}
NoObservers == [registered |-> <<>>, throwing |-> {}, called |-> <<>>]

\* ------------------------------------------------------------ App.vue
refreshTasks(st, cont, taskId) ==
  [st EXCEPT !.isLoading = TRUE,
             !.pulls = @ (+) SetToBag({Pull("list", taskId, cont, ListOf(st.backend, 1), NoDetail)})]

refreshTaskDetail(st, taskId, cont) ==
  [st EXCEPT !.pulls = @ (+) SetToBag({Pull("detail", taskId, cont, <<>>, st.backend[taskId])})]

\* a connectSocket without the early return
connectSocketAlways(st, taskId) ==
  IF FreeIds(st) = {}
  THEN st
  ELSE [wsConnect(wsOn(wsClose(st), "handleSocketEvent"), taskId) EXCEPT !.socketTaskId = taskId]

connectSocket(st, taskId) ==
  IF st.socketTaskId = taskId
  THEN st
  ELSE [wsConnect(wsOn(wsClose(st), "handleSocketEvent"), taskId) EXCEPT !.socketTaskId = taskId]

\* whether connectSocket(taskId) can create its socket within MaxSockets
CanConnect(st, taskId) ==
  st.socketTaskId = taskId \/ FreeIds(st) # {}

\* a terminal check that forgets which task is selected
IsTerminalForAnyTask(st, event) == event.status \in Terminal

IsTerminalForCurrent(st, event) ==
  st.currentTaskId = event.task_id /\ event.status \in Terminal

statusBranch(st, event) ==
  LET index == FindIndex(st.tasks, event.task_id)
      applied == IF index > 0
                 THEN [st EXCEPT !.tasks = upsertTask(st.tasks,
                         [st.tasks[index] EXCEPT !.status = event.status,
                                                 !.updated_at = event.timestamp])]
                 ELSE refreshTasks(st, "none", NULL)
  IN IF IsTerminalForCurrent(st, event)
     THEN refreshTaskDetail(applied, event.task_id, "none")
     ELSE applied

\* a handler that applies log lines to the selected task, whatever task the
\* event names
handleSocketEventOnSelected(st, event) ==
  IF event.event = "snapshot" THEN setTaskDetail(st, event.task)
  ELSE IF event.event = "status" THEN statusBranch(st, event)
  ELSE IF event.event = "log"
    THEN [st EXCEPT !.details = appendLog(st.details, st.currentTaskId, event.line)]
  ELSE IF event.event = "error" THEN [st EXCEPT !.errorMessage = event.message]
  ELSE st

\* a handler that also refreshes the task list when an error is reported
handleSocketEventErrorRefreshes(st, event) ==
  IF event.event = "snapshot" THEN setTaskDetail(st, event.task)
  ELSE IF event.event = "status" THEN statusBranch(st, event)
  ELSE IF event.event = "log"
    THEN [st EXCEPT !.details = appendLog(st.details, event.task_id, event.line)]
  ELSE IF event.event = "error"
    THEN refreshTasks([st EXCEPT !.errorMessage = event.message], "none", NULL)
  ELSE st

\* a handler that reports an event of a kind it does not know as an error
handleSocketEventUnknownIsError(st, event) ==
  IF event.event = "snapshot" THEN setTaskDetail(st, event.task)
  ELSE IF event.event = "status" THEN statusBranch(st, event)
  ELSE IF event.event = "log"
    THEN [st EXCEPT !.details = appendLog(st.details, event.task_id, event.line)]
  ELSE IF event.event = "error" THEN [st EXCEPT !.errorMessage = event.message]
  ELSE [st EXCEPT !.errorMessage = "UnknownEvent"]

handleSocketEvent(st, event) ==
  IF event.event = "snapshot" THEN setTaskDetail(st, event.task)
  ELSE IF event.event = "status" THEN statusBranch(st, event)
  ELSE IF event.event = "log"
    THEN [st EXCEPT !.details = appendLog(st.details, event.task_id, event.line)]
  ELSE IF event.event = "error" THEN [st EXCEPT !.errorMessage = event.message]
  ELSE st

\* an onclose that tells the user when the reconnects are used up
oncloseAlerts(st) ==
  IF ShouldReconnect(st.reconnectAttempts, st.wsCurrentTaskId)
  THEN [st EXCEPT !.timers = Append(@, ReconnectDelay(st.reconnectAttempts)),
                  !.reconnectAttempts = @ + 1]
  ELSE [st EXCEPT !.errorMessage = "ConnectionLost"]

\* socket.onclose
onclose(st) ==
  IF ShouldReconnect(st.reconnectAttempts, st.wsCurrentTaskId)
  THEN [st EXCEPT !.timers = Append(@, ReconnectDelay(st.reconnectAttempts)),
                  !.reconnectAttempts = @ + 1]
  ELSE st

\* an onopen that leaves the counter as it is
onopenKeepsCounter(st) == st

\* socket.onopen
onopen(st) == [st EXCEPT !.reconnectAttempts = 0]

\* the rest of onSubmit once its list refresh has settled
submitAfterList(st, taskId) ==
  refreshTaskDetail(connectSocket([st EXCEPT !.currentTaskId = taskId], taskId),
                    taskId, "submitDetail")

\* a list refresh that also forgets the details of the tasks the response omits
listSettledDropsDetails(st, p, ok) ==
  LET listed == {p.list[i].task_id : i \in 1..Len(p.list)}
      applied == IF ok
                 THEN [st EXCEPT !.tasks = setTasks(p.list),
                                 !.details = [t \in Tasks |-> IF t \in listed THEN @[t] ELSE NoDetail]]
                 ELSE [st EXCEPT !.errorMessage = "ListFailed"]
      done == [applied EXCEPT !.isLoading = FALSE]
  IN IF p.cont = "submit" THEN submitAfterList(done, p.task) ELSE done

\* refreshTasks once fetchTasks() has settled
listSettled(st, p, ok) ==
  LET applied == IF ok THEN [st EXCEPT !.tasks = setTasks(p.list)]
                 ELSE [st EXCEPT !.errorMessage = "ListFailed"]
      done == [applied EXCEPT !.isLoading = FALSE]
  IN IF p.cont = "submit" THEN submitAfterList(done, p.task) ELSE done

\* an onSelectTask that connects only when the detail has arrived
detailSettledConnectsOnSuccess(st, p, ok) ==
  LET applied == IF ok THEN setTaskDetail(st, p.detail)
                 ELSE [st EXCEPT !.errorMessage = "DetailFailed"]
  IN IF p.cont = "select" /\ ok THEN connectSocket(applied, p.task)
     ELSE IF p.cont = "submitDetail" THEN [applied EXCEPT !.isUploading = FALSE]
     ELSE applied

\* refreshTaskDetail once fetchTask() has settled, and what its caller does next
detailSettled(st, p, ok) ==
  LET applied == IF ok THEN setTaskDetail(st, p.detail)
                 ELSE [st EXCEPT !.errorMessage = "DetailFailed"]
  IN IF p.cont = "select" THEN connectSocket(applied, p.task)
     ELSE IF p.cont = "submitDetail" THEN [applied EXCEPT !.isUploading = FALSE]
     ELSE applied

\* an onRetry that keeps a failure of retryTask() to itself
retrySettledSilent(st, p, ok) ==
  IF ok
  THEN [connectSocket([setTaskDetail(st, p.detail) EXCEPT !.currentTaskId = p.task], p.task)
          EXCEPT !.errorMessage = NULL]
  ELSE st

\* onRetry once retryTask() has settled
retrySettled(st, p, ok) ==
  IF ok
  THEN [connectSocket([setTaskDetail(st, p.detail) EXCEPT !.currentTaskId = p.task], p.task)
          EXCEPT !.errorMessage = NULL]
  ELSE [st EXCEPT !.errorMessage = "RetryFailed"]

\* onSubmit once createTask() has settled
createSettled(st, p, ok) ==
  IF ok THEN refreshTasks(st, "submit", p.task)
  ELSE [st EXCEPT !.errorMessage = "SubmitFailed", !.isUploading = FALSE]

Settled(st, p, ok) ==
  IF p.kind = "list" THEN listSettled(st, p, ok)
  ELSE IF p.kind = "detail" THEN detailSettled(st, p, ok)
  ELSE IF p.kind = "retry" THEN retrySettled(st, p, ok)
  ELSE createSettled(st, p, ok)

\* whether settling p calls connectSocket, and for which task
Connects(p, ok) ==
  \/ p.kind = "list" /\ p.cont = "submit"
  \/ p.kind = "detail" /\ p.cont = "select"
  \/ p.kind = "retry" /\ ok

\* a request the backend can answer: the task exists
Answerable(p) == p.kind \in {"detail", "retry"} => p.detail.status # "none"

\* ------------------------------------------------------------- Init
\* The backend when the page loads: it holds t1, and t2 is yet to be submitted.
BackendWith(status) ==
  [t \in Tasks |->
     IF t = "t1"
     THEN [task_id |-> t, status |-> status, updated_at |-> 0, logs |-> <<>>]
     ELSE [task_id |-> t, status |-> "none", updated_at |-> 0, logs |-> <<>>]]

\* The state once the component is mounted: onMounted has called refreshTasks().
InitWith(b) ==
  /\ tasks = <<>>
  /\ currentTaskId = NULL
  /\ details = [t \in Tasks |-> NoDetail]
  /\ isLoading = TRUE
  /\ socketTaskId = NULL
  /\ errorMessage = NULL
  /\ isUploading = FALSE
  /\ socket = NullSocket
  /\ handlers = {}
  /\ reconnectAttempts = 0
  /\ wsCurrentTaskId = NULL
  /\ sockets = [s \in SocketIds |-> NoSocket]
  /\ timers = <<>>
  /\ pulls = SetToBag({Pull("list", NULL, "none", ListOf(b, 1), NoDetail)})
  /\ backend = b
  /\ events = [t \in Tasks |-> <<>>]
  /\ dismissals = <<>>
  /\ observers = NoObservers
  /\ last = Step("init", NULL, NoEvent)
  /\ backoff = NoBackoff
  /\ reconciled = EmptyBag
  /\ clicks = 0

\* t1 is running when the page loads
Init == InitWith(BackendWith("running"))
\* t1 has finished before the page loads
InitFinished == InitWith(BackendWith("success"))
\* t1 has failed and t2 has finished before the page loads
BackendFailed ==
  [t \in Tasks |->
     [task_id |-> t, status |-> IF t = "t1" THEN "failed" ELSE "success",
      updated_at |-> 0, logs |-> <<>>]]
InitFailed == InitWith(BackendFailed)

\* ------------------------------------------------------ user actions
Clicked == clicks < MaxClicks /\ clicks' = clicks + 1 /\ UNCHANGED reconciled

ListedIds == {tasks[i].task_id : i \in 1..Len(tasks)}

\* the refresh buttons of the header and of the task list
ClickRefresh ==
  LET st == refreshTasks(Client, "none", NULL) IN
  /\ Fits(st)
  /\ Becomes(st)
  /\ last' = Step("refreshTasks", NULL, NoEvent)
  /\ Clicked

\* a click on a task card
onSelectTask(taskId) ==
  LET st == refreshTaskDetail([Client EXCEPT !.currentTaskId = taskId], taskId, "select") IN
  /\ taskId \in ListedIds
  /\ Fits(st)
  /\ Becomes(st)
  /\ last' = Step("onSelectTask", taskId, NoEvent)
  /\ Clicked

\* the refresh button of the detail pane (shown when the selected task has a detail)
ClickRefreshDetail ==
  /\ currentTaskId # NULL
  /\ details[currentTaskId] # NoDetail
  /\ LET st == refreshTaskDetail(Client, currentTaskId, "none") IN
     /\ Fits(st)
     /\ Becomes(st)
  /\ last' = Step("refreshTaskDetail", currentTaskId, NoEvent)
  /\ Clicked

\* the retry button (shown when the selected task's detail is failed); the
\* backend queues the task again and answers with its detail
onRetry ==
  /\ currentTaskId # NULL
  /\ details[currentTaskId].status = "failed"
  /\ backend[currentTaskId].status \in Terminal
  /\ backend[currentTaskId].updated_at < MaxTime
  /\ LET again == [backend[currentTaskId] EXCEPT !.status = "queued",
                                                  !.updated_at = @ + 1, !.logs = <<>>]
         st == [Client EXCEPT
                  !.backend = [@ EXCEPT ![currentTaskId] = again],
                  !.pulls = @ (+) SetToBag({Pull("retry", currentTaskId, "none", <<>>, again)})]
     IN /\ Fits(st)
        /\ Becomes(st)
  /\ last' = Step("onRetry", currentTaskId, NoEvent)
  /\ Clicked

\* the submit button (disabled while uploading); the backend creates the task
onSubmit(taskId) ==
  /\ ~isUploading
  /\ backend[taskId].status = "none"
  /\ LET created == [backend[taskId] EXCEPT !.status = "queued"]
         st == [Client EXCEPT
                  !.isUploading = TRUE,
                  !.backend = [@ EXCEPT ![taskId] = created],
                  !.pulls = @ (+) SetToBag({Pull("create", taskId, "none", <<>>, NoDetail)})]
     IN /\ Fits(st)
        /\ Becomes(st)
  /\ last' = Step("onSubmit", taskId, NoEvent)
  /\ Clicked

\* watch(authStore.userId): login or logout
UserChanged ==
  LET st == refreshTasks(wsClose([Client EXCEPT !.currentTaskId = NULL]), "none", NULL) IN
  /\ Fits(st)
  /\ Becomes(st)
  /\ last' = Step("userChanged", NULL, NoEvent)
  /\ Clicked

\* the close button of the error banner
DismissError ==
  /\ errorMessage # NULL
  /\ Becomes([Client EXCEPT !.errorMessage = NULL])
  /\ last' = Step("clearError", NULL, NoEvent)
  /\ Clicked

\* an auto-dismiss timer fires, 4000 ms after the message it was started for
\* appeared: the banner is cleared if it still shows that message
ErrorTimerFires ==
  /\ dismissals # <<>>
  /\ Becomes([Client EXCEPT
                !.dismissals = Tail(@),
                !.errorMessage = IF @ = Head(dismissals) THEN NULL ELSE @])
  /\ last' = Step("dismissTimer", NULL, NoEvent)
  /\ UNCHANGED <<reconciled, clicks>>

\* ------------------------------------------------------ HTTP responses
PullSettles(p, ok) ==
  LET st == Settled([Client EXCEPT !.pulls = @ (-) SetToBag({p})], p, ok) IN
  /\ BagIn(p, pulls)
  /\ ok => Answerable(p)
  /\ Connects(p, ok) => CanConnect(Client, p.task)
  /\ Becomes(st)
  /\ last' = [op |-> IF ok THEN p.kind \o "Ok" ELSE p.kind \o "Failed", task |-> p.task, ev |-> NoEvent]
  /\ UNCHANGED <<reconciled, clicks>>

PullOk == \E p \in BagToSet(pulls) : PullSettles(p, TRUE)
PullFail == \E p \in BagToSet(pulls) : PullSettles(p, FALSE)

\* ------------------------------------------------- WebSocket callbacks
\* the connection is established: onopen runs; the socket receives the
\* pushes the backend emits from now on
SocketOpens(s) ==
  /\ sockets[s].rs = "CONNECTING"
  /\ LET st == onopen([Client EXCEPT
                   !.sockets = [@ EXCEPT ![s].rs = "OPEN", ![s].pos = Len(events[sockets[s].task])],
                   !.backoff = [@ EXCEPT !.valid = TRUE, !.closes = 0, !.delays = <<>>]])
     IN Becomes(st)
  /\ last' = Step("onopen", sockets[s].task, NoEvent)
  /\ UNCHANGED <<reconciled, clicks>>

\* the connection ends (it failed, the peer closed it, or the closing
\* handshake that close() started has finished): onclose runs
SocketCloses(s) ==
  /\ Live(s)
  /\ LET gone == [Client EXCEPT
                    !.sockets = [@ EXCEPT ![s] = NoSocket],
                    !.socket = IF @ = s THEN DeadSocket ELSE @]
         st == onclose(gone)
         scheduled == Len(st.timers) > Len(timers)
         seen == [st EXCEPT !.backoff =
                    IF backoff.valid
                    THEN [backoff EXCEPT
                            !.closes = Min(@ + 1, maxReconnectAttempts + 1),
                            !.delays = IF scheduled THEN Append(@, st.timers[Len(st.timers)]) ELSE @]
                    ELSE backoff]
     IN /\ Len(st.timers) <= MaxTimers
        /\ Becomes(seen)
  /\ last' = Step("onclose", sockets[s].task, NoEvent)
  /\ UNCHANGED <<reconciled, clicks>>

\* a reconnect timer that runs out without connecting
TimerExpires(i) ==
  /\ i \in 1..Len(timers)
  /\ Becomes([Client EXCEPT
                !.timers = SubSeq(@, 1, i - 1) \o SubSeq(@, i + 1, Len(@)),
                !.backoff = [@ EXCEPT !.stale = IF i <= @ THEN @ - 1 ELSE @]])
  /\ last' = Step("expired", wsCurrentTaskId, NoEvent)
  /\ UNCHANGED <<reconciled, clicks>>

\* a reconnect timer fires: this.connect(this.currentTaskId)
TimerFires(i) ==
  /\ i \in 1..Len(timers)
  /\ FreeIds(Client) # {}
  /\ LET st == wsConnect([Client EXCEPT
                   !.timers = SubSeq(@, 1, i - 1) \o SubSeq(@, i + 1, Len(@)),
                   !.backoff = [@ EXCEPT !.stale = IF i <= @ THEN @ - 1 ELSE @]],
                 wsCurrentTaskId)
     IN Becomes(st)
  /\ last' = Step(IF i <= backoff.stale THEN "staleReconnect" ELSE "reconnect",
                  wsCurrentTaskId, NoEvent)
  /\ UNCHANGED <<reconciled, clicks>>

\* socket.onmessage: the next push of the socket's stream is decoded and
\* handed to every registered handler
\* JSON.parse(event.data) returns (it throws on a malformed frame)
Decodes(message) == message.event # "malformed"

\* an onmessage that hands the event to the handler twice
onmessageTwice(st, event) ==
  IF ~Decodes(event) THEN st
  ELSE IF "handleSocketEvent" \in st.handlers
    THEN handleSocketEvent(handleSocketEvent(st, event), event)
  ELSE st

\* an onmessage whose catch block shows the failure to the user
onmessageSurfacesFailure(st, event) ==
  IF ~Decodes(event) THEN [st EXCEPT !.errorMessage = "ParseFailed"]
  ELSE IF "handleSocketEvent" \in st.handlers THEN handleSocketEvent(st, event)
  ELSE st

onmessage(st, event) ==
  IF ~Decodes(event) THEN st
  ELSE IF "handleSocketEvent" \in st.handlers THEN handleSocketEvent(st, event)
  ELSE st

\* what the callback did with the frame: dropped it (decoding failed), found
\* no handler registered, or handed the event to the handlers
Outcome(event) ==
  IF ~Decodes(event) THEN "dropped"
  ELSE IF handlers = {} THEN "unheard"
  ELSE "onmessage"

SocketReceives(s) ==
  /\ sockets[s].rs = "OPEN"
  /\ sockets[s].pos < Len(events[sockets[s].task])
  /\ LET event == events[sockets[s].task][sockets[s].pos + 1]
         st == onmessage([Client EXCEPT !.sockets = [@ EXCEPT ![s].pos = @ + 1]], event)
         pulled == \E q \in BagToSet(st.pulls) :
                      q.kind = "detail" /\ CopiesIn(q, st.pulls) > CopiesIn(q, pulls)
     IN /\ Fits(st)
        /\ Becomes(st)
        /\ last' = Step(Outcome(event), sockets[s].task, event)
        /\ reconciled' = IF pulled THEN reconciled (+) SetToBag({event}) ELSE reconciled
        /\ UNCHANGED clicks

\* ------------------------------------------------------------ backend
Emit(st, t, event) ==
  [st EXCEPT !.events = [@ EXCEPT ![t] = Append(@, event)]]

CanEmit(t) == Len(events[t]) < MaxEvents

NextStatus(status) ==
  IF status = "queued" THEN {"running"}
  ELSE IF status = "running" THEN {"success", "failed"}
  ELSE {}

\* the task moves on and the backend pushes its new status
BackendAdvances(t) ==
  /\ CanEmit(t)
  /\ backend[t].updated_at < MaxTime
  /\ \E status \in NextStatus(backend[t].status) :
       LET now == backend[t].updated_at + 1
           st == Emit([Client EXCEPT !.backend =
                         [@ EXCEPT ![t].status = status, ![t].updated_at = now]],
                      t, StatusEvent(t, status, now))
       IN Becomes(st)
  /\ last' = Step("backend", t, NoEvent)
  /\ UNCHANGED <<reconciled, clicks>>

\* the running task writes a log line and the backend pushes it
BackendLogs(t) ==
  /\ CanEmit(t)
  /\ backend[t].status = "running"
  /\ Len(backend[t].logs) < MaxLogs
  /\ LET line == Len(backend[t].logs) + 1
         st == Emit([Client EXCEPT !.backend = [@ EXCEPT ![t].logs = Append(@, line)]],
                    t, LogEvent(t, line))
     IN Becomes(st)
  /\ last' = Step("backend", t, NoEvent)
  /\ UNCHANGED <<reconciled, clicks>>

\* the backend pushes a snapshot of the task
BackendSnapshots(t) ==
  /\ CanEmit(t)
  /\ backend[t].status # "none"
  /\ Becomes(Emit(Client, t, SnapshotEvent(backend[t])))
  /\ last' = Step("backend", t, NoEvent)
  /\ UNCHANGED <<reconciled, clicks>>

\* the backend reports the failure of the task
BackendReports(t) ==
  /\ CanEmit(t)
  /\ backend[t].status = "failed"
  /\ Becomes(Emit(Client, t, ErrorEvent(t, "BackendError", backend[t].updated_at)))
  /\ last' = Step("backend", t, NoEvent)
  /\ UNCHANGED <<reconciled, clicks>>

\* the running task writes its last log line and finishes: the backend
\* pushes the line and the final status back to back
BackendBursts(t) ==
  /\ Len(events[t]) + 2 <= MaxBurst
  /\ backend[t].status = "running"
  /\ backend[t].updated_at < MaxTime
  /\ Len(backend[t].logs) < MaxLogs
  /\ \E status \in Terminal :
       LET now == backend[t].updated_at + 1
           line == Len(backend[t].logs) + 1
           done == [Client EXCEPT !.backend =
                      [@ EXCEPT ![t].status = status, ![t].updated_at = now,
                                ![t].logs = Append(@, line)]]
           st == Emit(Emit(done, t, LogEvent(t, line)), t, StatusEvent(t, status, now))
       IN Becomes(st)
  /\ last' = Step("backend", t, NoEvent)
  /\ UNCHANGED <<reconciled, clicks>>

\* the backend (or something on the way) sends a frame that is not JSON
BackendGarbles(t) ==
  /\ CanEmit(t)
  /\ backend[t].status # "none"
  /\ Becomes(Emit(Client, t, MalformedMessage(t)))
  /\ last' = Step("backend", t, NoEvent)
  /\ UNCHANGED <<reconciled, clicks>>

\* the backend pushes an event of a kind the client does not know
BackendExtends(t) ==
  /\ CanEmit(t)
  /\ backend[t].status # "none"
  /\ Becomes(Emit(Client, t, UnknownEvent(t)))
  /\ last' = Step("backend", t, NoEvent)
  /\ UNCHANGED <<reconciled, clicks>>

\* ------------------------------- a TaskWebSocket with several handlers
Elsewhere == UNCHANGED <<storeVars, uiVars, wsVars, envVars, backoff, reconciled, clicks>>

\* on(handler)
ObserverRegisters(h) ==
  /\ observers' = [observers EXCEPT !.registered = SetAdd(@, h)]
  /\ last' = Step("on", NULL, NoEvent)
  /\ Elsewhere

\* off(handler)
ObserverUnregisters(h) ==
  /\ observers' = [observers EXCEPT !.registered = SetDelete(@, h)]
  /\ last' = Step("off", NULL, NoEvent)
  /\ Elsewhere

\* close(): handlers.clear()
ObserversCleared ==
  /\ observers' = [observers EXCEPT !.registered = <<>>]
  /\ last' = Step("clear", NULL, NoEvent)
  /\ Elsewhere

\* onmessage with a well-formed message: handlers.forEach inside try; the
\* handlers of `throwing` throw when they are called
MessageDelivered(throwing) ==
  /\ observers' = [observers EXCEPT
                     !.throwing = throwing,
                     !.called = ForEach(observers.registered, throwing, 1)]
  /\ last' = Step("forEach", NULL, NoEvent)
  /\ Elsewhere

\* --------------------------------------------------------------- Next
Next ==
  \/ ClickRefresh
  \/ \E t \in Tasks : onSelectTask(t)
  \/ ClickRefreshDetail
  \/ onRetry
  \/ \E t \in Tasks : onSubmit(t)
  \/ UserChanged
  \/ DismissError
  \/ PullOk
  \/ PullFail
  \/ \E s \in SocketIds : SocketOpens(s)
  \/ \E s \in SocketIds : SocketCloses(s)
  \/ \E i \in 1..MaxTimers : TimerFires(i)
  \/ \E s \in SocketIds : SocketReceives(s)
  \/ \E t \in Tasks : BackendAdvances(t)
  \/ \E t \in Tasks : BackendLogs(t)
  \/ \E t \in Tasks : BackendSnapshots(t)
  \/ \E t \in Tasks : BackendReports(t)
  \/ \E t \in Tasks : BackendGarbles(t)
  \/ \E t \in Tasks : BackendExtends(t)
  \/ \E t \in Tasks : BackendBursts(t)
  \/ ErrorTimerFires
  \/ \E h \in Observers : ObserverRegisters(h)
  \/ \E h \in Observers : ObserverUnregisters(h)
  \/ ObserversCleared
  \/ \E throwing \in SUBSET Observers : MessageDelivered(throwing)

Spec == Init /\ [][Next]_vars

\* the closing handshake that close() started has finished
ClosingEnds(s) == sockets[s].rs = "CLOSING" /\ SocketCloses(s)

\* The connection manager under a backend at rest: selection, submission,
\* login/logout, responses, and every WebSocket callback and timer.
NextConn ==
  \/ \E t \in Tasks : onSelectTask(t)
  \/ \E t \in Tasks : onSubmit(t)
  \/ UserChanged
  \/ PullOk
  \/ PullFail
  \/ \E s \in SocketIds : SocketOpens(s)
  \/ \E s \in SocketIds : SocketCloses(s)
  \/ \E i \in 1..MaxTimers : TimerFires(i)

SpecConn == Init /\ [][NextConn]_vars

\* Pushes and pulls of one running task (t2 is never submitted) over a
\* connection that stays up.
NextRace ==
  \/ ClickRefresh
  \/ \E t \in Tasks : onSelectTask(t)
  \/ ClickRefreshDetail
  \/ PullOk
  \/ \E s \in SocketIds : SocketOpens(s)
  \/ \E s \in SocketIds : SocketReceives(s)
  \/ \E t \in Tasks : BackendAdvances(t)
  \/ \E t \in Tasks : BackendLogs(t)

SpecRace == Init /\ [][NextRace]_vars

\* Every request is answered and every message in flight is received.
FairRace ==
  /\ SpecRace
  /\ WF_vars(PullOk)
  /\ WF_vars(\E s \in SocketIds : SocketOpens(s))
  /\ WF_vars(\E s \in SocketIds : SocketReceives(s))

\* Push handling across two tasks: t1 has finished, t2 is submitted and runs;
\* connections end only when the client closes them.
NextPush ==
  \/ \E t \in Tasks : onSelectTask(t)
  \/ \E t \in Tasks : onSubmit(t)
  \/ PullOk
  \/ \E s \in SocketIds : SocketOpens(s)
  \/ \E s \in SocketIds : ClosingEnds(s)
  \/ \E i \in 1..MaxTimers : TimerFires(i)
  \/ \E s \in SocketIds : SocketReceives(s)
  \/ \E t \in Tasks : BackendAdvances(t)
  \/ \E t \in Tasks : BackendLogs(t)
  \/ \E t \in Tasks : BackendSnapshots(t)
  \/ \E t \in Tasks : BackendReports(t)

SpecPush == InitFinished /\ [][NextPush]_vars

\* Frames of every kind, well-formed or not, on the connection of one task,
\* with login/logout and reconnects.
NextWire ==
  \/ \E t \in Tasks : onSelectTask(t)
  \/ UserChanged
  \/ PullOk
  \/ \E s \in SocketIds : SocketOpens(s)
  \/ \E s \in SocketIds : SocketCloses(s)
  \/ \E i \in 1..MaxTimers : TimerFires(i)
  \/ \E s \in SocketIds : SocketReceives(s)
  \/ \E t \in Tasks : BackendAdvances(t)
  \/ \E t \in Tasks : BackendLogs(t)
  \/ \E t \in Tasks : BackendGarbles(t)
  \/ \E t \in Tasks : BackendExtends(t)

SpecWire == Init /\ [][NextWire]_vars

\* Requests that fail, and the retry of a failed task, with two tasks listed.
NextRetry ==
  \/ ClickRefresh
  \/ \E t \in Tasks : onSelectTask(t)
  \/ ClickRefreshDetail
  \/ onRetry
  \/ PullOk
  \/ PullFail
  \/ \E s \in SocketIds : SocketOpens(s)

SpecRetry == InitFailed /\ [][NextRetry]_vars

\* The error banner: requests that fail one after the other, the close button
\* and the auto-dismiss timers.
NextBanner ==
  \/ ClickRefresh
  \/ \E t \in Tasks : onSelectTask(t)
  \/ DismissError
  \/ PullOk
  \/ PullFail
  \/ ErrorTimerFires

SpecBanner == Init /\ [][NextBanner]_vars

\* Every timer that was started fires.
FairBanner == SpecBanner /\ WF_vars(ErrorTimerFires)

\* Connections of one task that fail and are retried, with login/logout.
NextReconnect ==
  \/ \E t \in Tasks : onSelectTask(t)
  \/ UserChanged
  \/ PullOk
  \/ \E s \in SocketIds : SocketOpens(s)
  \/ \E s \in SocketIds : SocketCloses(s)
  \/ \E i \in 1..MaxTimers : TimerFires(i)

SpecReconnect == Init /\ [][NextReconnect]_vars

\* Every reconnect timer fires.
FairReconnect == SpecReconnect /\ WF_vars(\E i \in 1..MaxTimers : TimerFires(i))

\* Bursts of pushes for one running task on connections that fail and are
\* reopened.
NextBurst ==
  \/ \E t \in Tasks : onSelectTask(t)
  \/ PullOk
  \/ \E s \in SocketIds : SocketOpens(s)
  \/ \E s \in SocketIds : SocketCloses(s)
  \/ \E i \in 1..MaxTimers : TimerFires(i)
  \/ \E s \in SocketIds : SocketReceives(s)
  \/ \E t \in Tasks : BackendBursts(t)

SpecBurst == Init /\ [][NextBurst]_vars

\* The dispatch of a message to the handlers of a TaskWebSocket: handlers
\* are registered and removed in every order, and any of them may throw.
NextDispatch ==
  \/ \E h \in Observers : ObserverRegisters(h)
  \/ \E h \in Observers : ObserverUnregisters(h)
  \/ ObserversCleared
  \/ \E throwing \in SUBSET Observers : MessageDelivered(throwing)

SpecDispatch == Init /\ [][NextDispatch]_vars

\* ============================================================= claims
LiveSockets == {s \in SocketIds : sockets[s].rs \in {"CONNECTING", "OPEN"}}

\* C1: a TaskWebSocket instance never has two websockets that are connecting
\* or open at once, whatever the interleaving of connectSocket calls, socket
\* callbacks and reconnect timers.
C1_SingleLiveConnection == Cardinality(LiveSockets) <= 1

\* C3: once close() has been called, no reconnect timer that was scheduled
\* before it opens a socket: the manager stays disconnected until the next
\* explicit connect().
C3_CloseDiscardsTimers == last.op # "staleReconnect"

\* The delays the claim lists.
BackoffDelays == <<1000, 2000, 4000, 8000, 10000>>

\* C4: after k consecutive closes since the last successful open, with no
\* close() in between, the reconnects scheduled are the first min(k, 5) of
\* 1000, 2000, 4000, 8000, 10000 ms, in that order: the sixth close schedules
\* nothing.
C4_BackoffSequence ==
  backoff.valid =>
    backoff.delays = SubSeq(BackoffDelays, 1, Min(backoff.closes, maxReconnectAttempts))

\* the fifth reconnect has closed as well
C4_Witness ==
  /\ backoff.valid
  /\ backoff.closes = maxReconnectAttempts + 1
  /\ Len(backoff.delays) = maxReconnectAttempts
  /\ timers = <<>>
  /\ last.op = "onclose"

HasSummary(list, t) == FindIndex(list, t) > 0
SummaryIn(list, t) == list[FindIndex(list, t)]

\* the steps that apply upsertTask: a status or snapshot event, and the
\* response of a detail pull or of a retry
UpsertSteps == {"onmessage", "detailOk", "retryOk"}

\* C5: an update (upsertTask from a status event, a snapshot or a pull
\* response) whose updated_at is earlier than the stored one leaves the stored
\* summary unchanged: no such step lowers the updated_at of a summary.
C5_MonotonicTimestamps ==
  [][last'.op \in UpsertSteps =>
       \A t \in Tasks :
         HasSummary(tasks, t) /\ HasSummary(tasks', t) =>
           SummaryIn(tasks', t).updated_at >= SummaryIn(tasks, t).updated_at]_vars

\* C6: the response of a pull (detail fetch or list refresh) that arrives
\* right after a push event has been handled never moves a task backwards:
\* neither the summary nor the detail of a task reverts to an older updated_at
\* than the one already stored.
C6_PullNeverRegresses ==
  [][last.op = "onmessage" /\ last'.op \in {"listOk", "detailOk"} =>
       \A t \in Tasks :
         /\ HasSummary(tasks, t) /\ HasSummary(tasks', t) =>
              SummaryIn(tasks', t).updated_at >= SummaryIn(tasks, t).updated_at
         /\ details[t] # NoDetail =>
              details'[t] # NoDetail /\ details'[t].updated_at >= details[t].updated_at]_vars

\* the terminal status event of the selected task has just been handled
TerminalDelivered(t) ==
  /\ last.op = "onmessage"
  /\ last.ev.event = "status"
  /\ last.ev.task_id = t
  /\ last.ev.status \in Terminal
  /\ currentTaskId = t
  /\ backend[t].status = last.ev.status

\* the summary and the detail of t show the backend's status
Shows(t) ==
  /\ HasSummary(tasks, t)
  /\ SummaryIn(tasks, t).status = backend[t].status
  /\ details[t].status = backend[t].status

\* C7: once the terminal status event of the selected task has been
\* delivered, and with every pull answered, the stored summary and detail of
\* the task eventually show the terminal status and keep showing it.
C7_Convergence ==
  \A t \in Tasks : [](TerminalDelivered(t) => <>[]Shows(t))

\* C8: handling the same terminal status event of the selected task more than
\* once issues at most one detail pull for it.
C8_TerminalPullOnce ==
  \A e \in BagToSet(reconciled) :
    e.event = "status" /\ e.status \in Terminal => CopiesIn(e, reconciled) <= 1

\* the detail pulls for task t among the requests in flight
DetailPulls(b, t) ==
  LET S == {q \in BagToSet(b) : q.kind = "detail" /\ q.task = t}
  IN BagCardinality([q \in S |-> CopiesIn(q, b)])

\* the list refreshes among the requests in flight
ListPulls(b) ==
  LET S == {q \in BagToSet(b) : q.kind = "list"}
  IN BagCardinality([q \in S |-> CopiesIn(q, b)])

\* this step is handleSocketEvent applied to a status event
HandlesStatus == last'.op = "onmessage" /\ last'.ev.event = "status"

\* C9: handling a status event issues exactly one detail pull, for the
\* event's task, when that task is the selected one and the status is success
\* or failed; it issues no detail pull when the task is not the selected one
\* or the status is queued or running.
C9_DetailPullOnTerminal ==
  [][HandlesStatus =>
       \A t \in Tasks :
         DetailPulls(pulls', t) - DetailPulls(pulls, t) =
           IF /\ t = last'.ev.task_id
              /\ currentTaskId = last'.ev.task_id
              /\ last'.ev.status \in Terminal
           THEN 1 ELSE 0]_vars

\* a terminal status event of the selected task has been handled and its
\* detail pull is in flight
C9_Witness ==
  /\ last.op = "onmessage"
  /\ last.ev.event = "status"
  /\ last.ev.status \in Terminal
  /\ last.ev.task_id = currentTaskId
  /\ DetailPulls(pulls, currentTaskId) = 1

\* C10: handling a status event of a task that has no summary in the store
\* leaves a summary of that task in the store and issues a list refresh;
\* handling one of a task that has a summary issues no list refresh.
C10_UnknownTaskStatus ==
  [][HandlesStatus =>
       IF HasSummary(tasks, last'.ev.task_id)
       THEN ListPulls(pulls') = ListPulls(pulls)
       ELSE /\ HasSummary(tasks', last'.ev.task_id)
            /\ ListPulls(pulls') = ListPulls(pulls) + 1]_vars

\* C2: an event that arrives on the connection of one task changes neither
\* the summary nor the detail (logs included) of any other task, whenever it
\* arrives relative to the switch to that other task.
C2_NoCrossTaskMutation ==
  [][last'.op = "onmessage" =>
       \A t \in Tasks \ {last'.task} :
         /\ HasSummary(tasks, t) = HasSummary(tasks', t)
         /\ HasSummary(tasks, t) => SummaryIn(tasks', t) = SummaryIn(tasks, t)
         /\ details'[t] = details[t]]_vars

\* B has been selected after A and B's detail is loaded; an event of A's
\* connection, still open, has been handled and applied to A's detail
C2_Witness ==
  /\ last.op = "onmessage"
  /\ last.task # currentTaskId
  /\ currentTaskId # NULL
  /\ socketTaskId = last.task
  /\ details[currentTaskId] # NoDetail
  /\ last.ev.event \in {"snapshot", "log"}
  /\ details[last.task] # NoDetail

\* a status event has just been handled
StatusHandled == last.op = "onmessage" /\ last.ev.event = "status"

\* C11: handling the same status event a second time, right after the first,
\* leaves the task list and the details map as the first handling left them.
C11_StatusIdempotent ==
  StatusHandled =>
    LET again == handleSocketEvent(Client, last.ev)
    IN again.tasks = tasks /\ again.details = details

\* a status event of a listed task has been applied to its summary
C11_Witness ==
  /\ StatusHandled
  /\ HasSummary(tasks, last.ev.task_id)
  /\ SummaryIn(tasks, last.ev.task_id).status = last.ev.status
  /\ SummaryIn(tasks, last.ev.task_id).updated_at = last.ev.timestamp
  /\ last.ev.timestamp > 0

\* this step is handleSocketEvent applied to a log event
HandlesLog == last'.op = "onmessage" /\ last'.ev.event = "log"

\* this step replaces the detail of t: a snapshot event, or the response of a
\* detail pull or of a retry
ReplacesDetail(t) ==
  \/ last'.op \in {"detailOk", "retryOk"} /\ last'.task = t
  \/ last'.op = "onmessage" /\ last'.ev.event = "snapshot" /\ last'.ev.task.task_id = t

C13_AppendLogWithoutDetail ==
  [][HandlesLog /\ details[last'.ev.task_id] = NoDetail =>
       /\ details' = details
       /\ tasks' = tasks
       /\ errorMessage' = errorMessage]_vars

\* a log event has been handled for a task whose detail is not loaded
C13_Witness ==
  /\ last.op = "onmessage"
  /\ last.ev.event = "log"
  /\ details[last.ev.task_id] = NoDetail

\* the detail the step hands to setTaskDetail for task t: the task of the
\* snapshot event, or the answer of the request that settles
DetailApplied(t) ==
  IF last'.op = "onmessage"
  THEN {last'.ev.task}
  ELSE {p.detail : p \in {q \in BagToSet(pulls) :
                            /\ q.kind \in {"detail", "retry"}
                            /\ q.task = t
                            /\ CopiesIn(q, pulls') < CopiesIn(q, pulls)}}

\* C14: a step that applies setTaskDetail(task) (a snapshot event, the
\* response of a detail pull or of a retry) leaves details[task.task_id] equal
\* to task, logs included, and the list summary of the task equal to the
\* summary fields of task, so that summary and detail agree on status and
\* updated_at; the details of the other tasks are unchanged.
C14_SetTaskDetail ==
  [][\A t \in Tasks :
       ReplacesDetail(t) =>
         /\ details'[t] \in DetailApplied(t)
         /\ HasSummary(tasks', t)
         /\ SummaryIn(tasks', t) = SummaryOf(details'[t])
         /\ \A u \in Tasks \ {t} : details'[u] = details[u]]_vars

\* a snapshot with a later status than the one first shown has replaced the
\* detail of its task
C14_Witness ==
  /\ last.op = "onmessage"
  /\ last.ev.event = "snapshot"
  /\ last.ev.task.updated_at > 0
  /\ details[last.ev.task.task_id] = last.ev.task
  /\ SummaryIn(tasks, last.ev.task.task_id).updated_at = last.ev.task.updated_at

\* C15: the task list never holds two summaries of the same task_id, whatever
\* upserts, detail replacements, pushed events and list refreshes have run.
C15_OneSummaryPerTask ==
  \A i, j \in 1..Len(tasks) : tasks[i].task_id = tasks[j].task_id => i = j

\* an upsert (from a pushed snapshot or status, or from a detail response)
\* has been applied to a list of two tasks
C15_Witness ==
  /\ Len(tasks) = 2
  /\ \/ last.op = "detailOk"
     \/ last.op = "onmessage" /\ last.ev.event \in {"snapshot", "status"}
  /\ last.task = tasks[1].task_id
  /\ tasks[1].updated_at > 0

\* the requests this step settles
SettledPulls == {p \in BagToSet(pulls) : CopiesIn(p, pulls') < CopiesIn(p, pulls)}

\* this step settles a request whose continuation calls connectSocket(t)
CallsConnectSocket(t) ==
  \E p \in SettledPulls :
    /\ p.task = t
    /\ Connects(p, last'.op \in {"listOk", "detailOk", "retryOk"})

\* C16: connectSocket(taskId) while socketTaskId is already taskId creates no
\* socket, closes none, and leaves the handlers, the reconnect counter and the
\* pending timers unchanged.
C16_ConnectSameTaskNoOp ==
  [][\A t \in Tasks :
       CallsConnectSocket(t) /\ socketTaskId = t =>
         /\ sockets' = sockets
         /\ socket' = socket
         /\ handlers' = handlers
         /\ reconnectAttempts' = reconnectAttempts
         /\ wsCurrentTaskId' = wsCurrentTaskId
         /\ timers' = timers
         /\ socketTaskId' = socketTaskId]_vars

\* the detail response of a repeated selection has arrived (a submission is
\* still uploading, so the response is not the submission's) and the open
\* socket of the task is still the current one
C16_Witness ==
  /\ last.op = "detailOk"
  /\ isUploading
  /\ socketTaskId = last.task
  /\ currentTaskId = last.task
  /\ socket \in SocketIds
  /\ sockets[socket].rs = "OPEN"
  /\ sockets[socket].task = last.task

\* the reconnects are exhausted: the connection that had opened has closed,
\* all five retries have closed as well, and neither a socket nor a timer is
\* left
Exhausted ==
  /\ backoff.valid
  /\ backoff.closes > maxReconnectAttempts
  /\ reconnectAttempts = maxReconnectAttempts
  /\ timers = <<>>
  /\ \A s \in SocketIds : ~Live(s)

\* C17: once the reconnects are exhausted, selecting the same task again
\* (its detail response arrives and connectSocket is called) gives the
\* attempt counter a fresh budget and starts a new connection for the task.
C17_ReselectReconnects ==
  [][\A t \in Tasks :
       Exhausted /\ socketTaskId = t /\ CallsConnectSocket(t) =>
         /\ \E s \in SocketIds : sockets'[s].rs = "CONNECTING" /\ sockets'[s].task = t
         /\ reconnectAttempts' < maxReconnectAttempts]_vars

\* C18: when a connection opens the reconnect counter becomes 0, and the
\* first close after an open (with no close() in between) schedules one
\* reconnect after 1000 ms and uses the first of the five attempts.
C18_OpenResetsCounter ==
  [][/\ last'.op = "onopen" => reconnectAttempts' = 0
     /\ last'.op = "onclose" /\ backoff.valid /\ backoff.closes = 0 =>
          /\ timers' = Append(timers, BaseDelay)
          /\ reconnectAttempts' = 1]_vars

\* a connection has opened and then closed: one reconnect after 1000 ms is
\* pending and the counter is 1
C18_Witness ==
  /\ last.op = "onclose"
  /\ backoff.valid
  /\ backoff.closes = 1
  /\ backoff.delays = <<BaseDelay>>
  /\ timers = <<BaseDelay>>
  /\ reconnectAttempts = 1

\* C19: connectSocket for a task other than the one the connection is scoped
\* to closes the previous connection and clears the handlers before it
\* creates the new socket: once the new socket exists it is the only socket
\* connecting or open, and only the handler registered for it is left.
C19_SwitchClosesPrevious ==
  [][\A t \in Tasks :
       CallsConnectSocket(t) /\ socketTaskId # t =>
         /\ socket' \in SocketIds
         /\ sockets'[socket'] = [task |-> t, rs |-> "CONNECTING", pos |-> 0]
         /\ handlers' = {"handleSocketEvent"}
         /\ \A s \in SocketIds \ {socket'} : sockets'[s].rs \notin {"CONNECTING", "OPEN"}]_vars

\* the ready state and the task of every socket
Connections(socks) == [s \in SocketIds |-> <<socks[s].rs, socks[s].task>>]

\* C20: handling an error event sets the error message to the event's
\* message and changes nothing else: the task list, the details, the
\* selection and the connection are as before, and no request is issued.
C20_ErrorEventFrame ==
  [][last'.op = "onmessage" /\ last'.ev.event = "error" =>
       /\ errorMessage' = last'.ev.message
       /\ tasks' = tasks
       /\ details' = details
       /\ currentTaskId' = currentTaskId
       /\ isLoading' = isLoading
       /\ socketTaskId' = socketTaskId
       /\ socket' = socket
       /\ handlers' = handlers
       /\ reconnectAttempts' = reconnectAttempts
       /\ wsCurrentTaskId' = wsCurrentTaskId
       /\ timers' = timers
       /\ Connections(sockets') = Connections(sockets)
       /\ pulls' = pulls]_vars

\* an error event of the selected, failed task has been handled and its
\* message is shown
C20_Witness ==
  /\ last.op = "onmessage"
  /\ last.ev.event = "error"
  /\ errorMessage = last.ev.message
  /\ currentTaskId = last.ev.task_id
  /\ details[last.ev.task_id] # NoDetail

\* this step leaves the task store as it is
StoreUnchanged ==
  /\ tasks' = tasks
  /\ details' = details
  /\ currentTaskId' = currentTaskId
  /\ isLoading' = isLoading

\* this step leaves the connection manager and its sockets as they are
ConnectionUnchanged ==
  /\ socketTaskId' = socketTaskId
  /\ socket' = socket
  /\ handlers' = handlers
  /\ reconnectAttempts' = reconnectAttempts
  /\ wsCurrentTaskId' = wsCurrentTaskId
  /\ timers' = timers
  /\ Connections(sockets') = Connections(sockets)

\* C21: a frame that fails to decode is dropped: no handler is invoked, and
\* the store, the error message, the requests in flight and the connection
\* state stay as they are.
C21_MalformedDropped ==
  [][last'.ev.event = "malformed" =>
       /\ last'.op = "dropped"
       /\ StoreUnchanged
       /\ ConnectionUnchanged
       /\ errorMessage' = errorMessage
       /\ pulls' = pulls]_vars

\* a malformed frame has arrived on the open connection of the selected
\* task while the handler was registered
C21_Witness ==
  /\ last.op = "dropped"
  /\ last.ev.event = "malformed"
  /\ handlers # {}
  /\ currentTaskId = last.task
  /\ details[last.task] # NoDetail

\* the kinds of event handleSocketEvent has a branch for
KnownEvents == {"snapshot", "status", "log", "error"}

\* C22: a well-formed event whose kind is none of snapshot, status, log and
\* error is handed to the handler and ignored: the store, the error message,
\* the selection and the connection state stay as they are and no request is
\* issued.
C22_UnknownEventIgnored ==
  [][last'.op = "onmessage" /\ last'.ev.event \notin KnownEvents =>
       /\ StoreUnchanged
       /\ ConnectionUnchanged
       /\ errorMessage' = errorMessage
       /\ pulls' = pulls]_vars

\* an event of an unknown kind has been handed to the handler for the
\* selected task
C22_Witness ==
  /\ last.op = "onmessage"
  /\ last.ev.event = "progress"
  /\ currentTaskId = last.task
  /\ details[last.task] # NoDetail

\* the handlers a delivery has called
Called == {observers.called[i] : i \in 1..Len(observers.called)}
Registered == {observers.registered[i] : i \in 1..Len(observers.registered)}

\* C23: when a message has been delivered, every registered handler has been
\* called with it, also when one of the handlers threw.
C23_ThrowDoesNotStarve ==
  last.op = "forEach" => Registered \subseteq Called

\* C24: close() leaves no handler registered (the login/logout watcher
\* calls close() and registers nothing), and a message that arrives while no
\* handler is registered reaches none: the store, the error message and the
\* requests in flight stay as they are.
C24_CloseClearsObservers ==
  [][/\ last'.op = "userChanged" => handlers' = {}
     /\ last'.op = "unheard" =>
          /\ StoreUnchanged
          /\ errorMessage' = errorMessage
          /\ pulls' = pulls]_vars

\* after close(), a socket opened by a reconnect timer that close() did not
\* cancel has received a log line for a task whose detail is stored
C24_Witness ==
  /\ last.op = "unheard"
  /\ last.ev.event = "log"
  /\ details[last.task] # NoDetail

\* the pushes socket s has yet to receive
Unread(socks, evs, s) ==
  SubSeq(evs[socks[s].task], socks[s].pos + 1, Len(evs[socks[s].task]))

\* the step leaves the store, the banner and the requests as st has them
Applied(st) ==
  /\ tasks' = st.tasks
  /\ details' = st.details
  /\ currentTaskId' = st.currentTaskId
  /\ isLoading' = st.isLoading
  /\ errorMessage' = st.errorMessage
  /\ pulls' = st.pulls

ConnectionSteps == {"onclose", "reconnect", "staleReconnect", "onopen"}

\* C27: a socket close, a reconnect (scheduled or fired) and the end of the
\* reconnects leave the error message and the task store as they are.
C27_ConnectionFailuresSilent ==
  [][last'.op \in ConnectionSteps =>
       /\ errorMessage' = errorMessage
       /\ StoreUnchanged
       /\ socketTaskId' = socketTaskId
       /\ pulls' = pulls]_vars

\* the reconnects are exhausted for the selected task and nothing is shown
C27_Witness ==
  /\ Exhausted
  /\ last.op = "onclose"
  /\ currentTaskId = last.task
  /\ HasSummary(tasks, last.task)
  /\ errorMessage = NULL

\* C30: a step that removes a summary from the list is the success of a
\* list refresh, and the list it leaves is the response of a request that was
\* in flight; a list refresh leaves the details map as it is.
C30_SummaryRemovedByListOnly ==
  [][/\ \A t \in Tasks :
          HasSummary(tasks, t) /\ ~HasSummary(tasks', t) =>
            /\ last'.op = "listOk"
            /\ \E p \in BagToSet(pulls) : p.kind = "list" /\ tasks' = p.list
     /\ last'.op \in {"listOk", "listFailed"} => details' = details]_vars

\* a list response from before t2 was submitted has removed the summary of
\* t2, and the detail of t2 is still stored
C30_Witness ==
  /\ last.op = "listOk"
  /\ ~HasSummary(tasks, "t2")
  /\ HasSummary(tasks, "t1")
  /\ details["t2"] # NoDetail

\* the message each failed pull shows
FailureMessage(op) ==
  IF op = "listFailed" THEN "ListFailed"
  ELSE IF op = "detailFailed" THEN "DetailFailed"
  ELSE "RetryFailed"
FailedKind(op) ==
  IF op = "listFailed" THEN "list"
  ELSE IF op = "detailFailed" THEN "detail"
  ELSE "retry"

\* C26: when a list fetch, a detail fetch or a retry fails, the task list and
\* the details map stay as they are, the error banner shows the failure, and
\* no request of that kind is issued in its place.
C26_FailedPullSurfaced ==
  [][last'.op \in {"listFailed", "detailFailed", "retryFailed"} =>
       /\ tasks' = tasks
       /\ details' = details
       /\ errorMessage' = FailureMessage(last'.op)
       /\ \A q \in BagToSet(pulls') :
            q.kind = FailedKind(last'.op) => CopiesIn(q, pulls') <= CopiesIn(q, pulls)]_vars

\* the retry of the failed task has failed: the banner says so and the
\* detail is the one that was shown
C26_Witness ==
  /\ last.op = "retryFailed"
  /\ errorMessage = "RetryFailed"
  /\ details[last.task].status = "failed"
  /\ HasSummary(tasks, last.task)
  /\ \A q \in BagToSet(pulls) : q.kind # "retry"

\* C28: the response of a detail fetch or of a retry leaves the selection
\* (currentTaskId) as it is.
C28_LateResultKeepsSelection ==
  [][last'.op \in {"detailOk", "retryOk"} => currentTaskId' = currentTaskId]_vars

\* C29: whenever the banner shows a message, it is empty again later: the
\* user closes it or a timer started for the message fires.
C29_ErrorEventuallyCleared == (errorMessage # NULL) ~> (errorMessage = NULL)

\* a second failure has replaced the message of the first one while the
\* timer of the first one is still pending
C29_Witness ==
  /\ Len(dismissals) = 2
  /\ dismissals[1] # dismissals[2]
  /\ errorMessage = dismissals[2]

\* C31: a status event of a task that has no summary issues a list refresh;
\* a success or failed status event of the selected task issues exactly one
\* detail pull for it and leaves the task's summary with that status, also
\* when the list refresh has not been answered yet.
C31_EndToEnd ==
  [][HandlesStatus =>
       LET t == last'.ev.task_id IN
       /\ ~HasSummary(tasks, t) => ListPulls(pulls') = ListPulls(pulls) + 1
       /\ currentTaskId = t /\ last'.ev.status \in Terminal =>
            /\ DetailPulls(pulls', t) - DetailPulls(pulls, t) = 1
            /\ HasSummary(tasks', t)
            /\ SummaryIn(tasks', t).status = last'.ev.status]_vars

\* the summaries a push or a response can carry
Summaries ==
  [task_id : Tasks, status : Statuses, updated_at : 0..MaxTime]

\* out is list with summary put in the place of the summary of the same
\* task, or in front of the list when there is none
Upserted(list, summary, out) ==
  IF \E i \in 1..Len(list) : list[i].task_id = summary.task_id
  THEN /\ Len(out) = Len(list)
       /\ \E i \in 1..Len(list) :
            /\ list[i].task_id = summary.task_id
            /\ out[i] = summary
            /\ \A j \in 1..Len(list) : j # i => out[j] = list[j]
  ELSE /\ Len(out) = Len(list) + 1
       /\ out[1] = summary
       /\ \A j \in 1..Len(list) : out[j + 1] = list[j]

C33_ConnectionFollowsSelection ==
  currentTaskId # NULL /\ pulls = EmptyBag => socketTaskId = currentTaskId

\* C34: when the login/logout watcher has closed the connection of task t
\* (no handler is registered and socketTaskId is still t) and t is selected
\* again, the call of connectSocket(t) opens a new connection for t.
C34_ReselectAfterUserChange ==
  [][\A t \in Tasks :
       handlers = {} /\ socketTaskId = t /\ CallsConnectSocket(t) =>
         \E s \in SocketIds :
           sockets'[s].rs = "CONNECTING" /\ sockets'[s].task = t /\ socket' = s]_vars

\* the first socket of a connection to task t, made after a connection to
\* another task, is still connecting: no socket has opened since close(), no
\* timer from before is pending, and the detail of another task was loaded
FirstAttemptAfterSwitch(s, t) ==
  /\ socket = s
  /\ sockets[s].rs = "CONNECTING"
  /\ sockets[s].task = t
  /\ wsCurrentTaskId = t
  /\ socketTaskId = t
  /\ ~backoff.valid
  /\ timers = <<>>
  /\ \E o \in Tasks \ {t} : details[o] # NoDetail

\* C35: when the first connection attempt to the task switched to closes
\* before it opens, a reconnect is scheduled after 1000 ms.
C35_FreshBudgetAfterSwitch ==
  [][\A s \in SocketIds, t \in Tasks :
       FirstAttemptAfterSwitch(s, t) /\ last'.op = "onclose" /\ sockets'[s].rs = "CLOSED" =>
         timers' = <<BaseDelay>>]_vars

\* C36: when no request is in flight, every task that has a detail has a
\* summary with the status and the updated_at of its detail.
C36_DetailAgreesWithSummary ==
  pulls = EmptyBag =>
    \A t \in Tasks :
      details[t] # NoDetail =>
        /\ HasSummary(tasks, t)
        /\ SummaryIn(tasks, t).status = details[t].status
        /\ SummaryIn(tasks, t).updated_at = details[t].updated_at

C39_LoadingWhileRefreshing ==
  isLoading = (ListPulls(pulls) > 0)

\* C40: a timer that clears the banner is the timer of the occurrence the
\* banner shows. Every occurrence starts a timer when it appears, so the
\* timer of the occurrence shown is the newest one pending: the timer that
\* fires (the oldest) is that one only when no other timer is pending.
C40_TimerClearsOwnError ==
  [][last'.op = "dismissTimer" /\ errorMessage # NULL /\ errorMessage' = NULL =>
       Len(dismissals) = 1]_vars

\* a reconnect timer scheduled since the last close() is pending
ReconnectPending == Len(timers) > backoff.stale
\* close() has been called with the timer pending
ClosedMeanwhile == timers # <<>> /\ backoff.stale = Len(timers)

\* C38: a reconnect timer scheduled by an unrequested close fires, unless
\* close() is called first, and the socket it creates is for the task the
\* TaskWebSocket is scoped to when it fires.
C38_ReconnectHappens ==
  /\ ReconnectPending ~> (last.op = "reconnect" \/ ClosedMeanwhile)
  /\ [][last'.op = "reconnect" =>
          /\ wsCurrentTaskId' = wsCurrentTaskId
          /\ socket' \in SocketIds
          /\ sockets'[socket'].rs = "CONNECTING"
          /\ sockets'[socket'].task = wsCurrentTaskId]_vars

\* the open connection of the selected task has closed and its reconnect
\* timer has fired: a new socket for the task is connecting
C38_Witness ==
  /\ last.op = "reconnect"
  /\ backoff.valid
  /\ backoff.delays = <<BaseDelay>>
  /\ currentTaskId = wsCurrentTaskId
  /\ socket \in SocketIds
  /\ sockets[socket].rs = "CONNECTING"
  /\ sockets[socket].task = currentTaskId

====
